---- MODULE Spec2Model ----
(***************************************************************************)
(* The opportunity transformation pipeline of src/src/devin_etl            *)
(* (run_pipeline and its stages) followed by src/src/quality_checks.py     *)
(* (anomaly_rules), as the command line entry point src/src/pipeline.py    *)
(* runs them.                                                              *)
(*                                                                         *)
(* A cell of a table is a record [t, v, s, cs]: t is the Python type of    *)
(* the cell and v (a number), s (a string) or cs (a sequence of            *)
(* characters) its payload, the other two being 0, "" and <<>>.            *)
(*   "str"     a string that is neither a number nor a date (s)            *)
(*   "chars"   a string given character by character (cs)                  *)
(*   "sha256"  a SHA-256 hex digest, named by the string hashed (cs)       *)
(*   "numstr"  a string float() accepts (v: the number, an integer)        *)
(*   "datestr" a string dateutil parses (v: the day number)                *)
(*   "ts"      a pandas Timestamp (v: the day number)                      *)
(*   "float"   a Python float (v: the number in the unit of its column)    *)
(*   "None", "NaN", "NaT"   the three nulls of pandas                      *)
(* Keys that the code only compares (Id, AccountId, StageName, currency    *)
(* codes) are plain integers or strings.                                   *)
(*                                                                         *)
(* Units of the float columns: Amount and Probability are whole numbers;   *)
(* rate_to_usd, fx_rate_used and AmountUSD are in hundredths (RateScale);  *)
(* expected_revenue_usd is in ten-thousandths (hundredths times a           *)
(* percentage).                                                            *)
(***************************************************************************)
EXTENDS Integers, Sequences, FiniteSets, TLC

\* ------------------------------------------------------------------ bounds
MaxOpps == 3        \* rows of the opportunity table
MaxId == 2          \* distinct opportunity identifiers
MaxDay == 4         \* calendar days 1..MaxDay
MaxStamp == 2       \* modification days 1..MaxStamp
MaxFx == 2          \* rows of the FX table
MaxRef == 2         \* rows of the stage-mapping table and of the account table
MaxJoin == 2        \* opportunities joined against the reference tables
MaxMetric == 2      \* opportunities whose metrics are computed together

Days == 1..MaxDay
Ids == 1..MaxId

\* ------------------------------------------------------------------ cells
Cell(t, v, s, cs) == [t |-> t, v |-> v, s |-> s, cs |-> cs]
None == Cell("None", 0, "", <<>>)
NaN == Cell("NaN", 0, "", <<>>)
NaT == Cell("NaT", 0, "", <<>>)
Str(s) == Cell("str", 0, s, <<>>)
NumStr(n) == Cell("numstr", n, "", <<>>)
DateStr(d) == Cell("datestr", d, "", <<>>)
Ts(d) == Cell("ts", d, "", <<>>)
Float(n) == Cell("float", n, "", <<>>)

\* pd.isna / pd.notna on a scalar
isna(x) == x.t \in {"None", "NaN", "NaT"}
notna(x) == ~isna(x)

\* rate_to_usd is written with two decimals: float("1.08") is 108 hundredths
RateScale == 100

\* parse_dt: null, blank or unparseable gives NaT. A Timestamp prints as a
\* date string that parses back to the same Timestamp.
parse_dt(x) ==
  IF isna(x) \/ x = Str("") THEN NaT
  ELSE IF x.t = "datestr" THEN Ts(x.v)
  ELSE IF x.t = "ts" THEN Ts(x.v)
  ELSE NaT

\* float(x) raises for anything that is not a number
FloatRaises(x) == x.t \notin {"numstr", "float", "NaN"}
\* float(x) where it does not raise
ToFloat(x) == IF x.t = "NaN" THEN NaN ELSE Float(x.v)

\* safe_float: float(x), None where float raises
safe_float(x) == IF FloatRaises(x) THEN None ELSE ToFloat(x)

\* str.upper() on the currency codes of the model
Upper(s) ==
  CASE s = "eur" -> "EUR"
    [] s = "Eur" -> "EUR"
    [] s = "usd" -> "USD"
    [] OTHER -> s

REQUIRED_OPP_COLS ==
  {"Id", "AccountId", "Name", "StageName", "Amount", "CurrencyIsoCode", "Probability",
   "CloseDate", "CreatedDate", "LastModifiedDate", "OwnerEmail", "Phone", "IsWon", "IsClosed"}

REQUIRED_ACCT_COLS == {"Id", "Name", "Industry", "OwnerId"}

\* enforce_required that stops at the first missing column
enforce_required_first(df, required) ==
  LET missing == {c \in required : c \notin df.cols}
  IN  IF missing = {} THEN {} ELSE {CHOOSE c \in missing : TRUE}

\* enforce_required: the required columns the frame lacks
enforce_required(df, required) == {c \in required : c \notin df.cols}

\* ------------------------------------------------------------------ frames
\* A DataFrame: its column names and its rows in order.
Frame(cols, rows) == [cols |-> cols, rows |-> rows]
NoFrame == Frame({}, <<>>)

Range(s) == {s[i] : i \in DOMAIN s}

\* The permutations of 1..n
Perms(n) == {p \in [1..n -> 1..n] : \A i, j \in 1..n : p[i] = p[j] => i = j}

\* Series construction from a list of Python floats and None (the result of
\* apply): with a float in it the column is float64 and None becomes NaN;
\* all None stays an object column of None.
InferFloatColumn(vals) ==
  IF \E i \in DOMAIN vals : vals[i].t = "float"
    THEN [i \in DOMAIN vals |-> IF vals[i].t = "None" THEN NaN ELSE vals[i]]
    ELSE vals

\* Set column c of the rows to the values vals (same length)
SetColumn(rows, c, vals) ==
  [i \in DOMAIN rows |-> [k \in (DOMAIN rows[i]) \cup {c} |-> IF k = c THEN vals[i] ELSE rows[i][k]]]

\* Series.apply(f) on a date column
DATE_COLS == {"CloseDate", "CreatedDate", "LastModifiedDate"}

\* load_csv: every cell a string, then parse_dt on the date columns present
load_csv(csv, parse_dates) ==
  Frame(csv.cols,
        [i \in DOMAIN csv.rows |->
           [k \in DOMAIN csv.rows[i] |->
              IF k \in parse_dates THEN parse_dt(csv.rows[i][k]) ELSE csv.rows[i][k]]])

\* ------------------------------------------------------------------ dedupe
\* sort_values(ts_col): the rows with a timestamp ascending, then the NaT rows
\* (na_position="last") in their original order. The default sort is not
\* stable: rows with equal timestamps come out in any order.
IsSortByTs(rows, p, ts_col) ==
  \A i, j \in DOMAIN rows :
    i < j =>
      LET a == rows[p[i]][ts_col]
          b == rows[p[j]][ts_col]
      IN  /\ ~(isna(a) /\ notna(b))
          /\ (notna(a) /\ notna(b)) => a.v <= b.v
          /\ (isna(a) /\ isna(b)) => p[i] < p[j]

sort_values_ts(rows, ts_col) ==
  {[i \in DOMAIN rows |-> rows[p[i]]] :
     p \in {q \in Perms(Len(rows)) : IsSortByTs(rows, q, ts_col)}}

\* drop_duplicates(subset=[id_col], keep="last")
KeepLast(rows, i, id_col) == \A j \in DOMAIN rows : j > i => rows[j][id_col] # rows[i][id_col]

RECURSIVE SelectIdx(_, _, _)
SelectIdx(rows, keep, i) ==
  IF i > Len(rows) THEN <<>>
  ELSE (IF i \in keep THEN <<rows[i]>> ELSE <<>>) \o SelectIdx(rows, keep, i + 1)

drop_duplicates_last(rows, id_col) ==
  SelectIdx(rows, {i \in DOMAIN rows : KeepLast(rows, i, id_col)}, 1)

\* dedupe_latest: the frames it can return
dedupe_latest(df) ==
  LET parsed == [i \in DOMAIN df.rows |->
                   [df.rows[i] EXCEPT !.LastModifiedDate = parse_dt(@)]]
  IN  {Frame(df.cols, drop_duplicates_last(s, "Id")) :
         s \in sort_values_ts(parsed, "LastModifiedDate")}

\* ------------------------------------------------------------------ joins
RECURSIVE Flatten(_)
Flatten(ss) == IF ss = <<>> THEN <<>> ELSE Head(ss) \o Flatten(Tail(ss))

\* The rows of right whose key column equals k, in right's order
Matches(right, key, k) == SelectSeq(right, LAMBDA r : r[key] = k)

\* The columns of a merge: a column of add that the left frame has too comes
\* out twice, the left one with suffix _x and the right one with suffix _y.
merged_columns(cols, add) ==
  (cols \ add) \cup (add \ cols)
    \cup {k \o "_x" : k \in cols \cap add} \cup {k \o "_y" : k \in cols \cap add}

\* One row of a merge from the left row l and the right values m
merged_row(l, m, add) ==
  [k \in merged_columns(DOMAIN l, add) |->
     IF k \in (DOMAIN l) \ add THEN l[k]
     ELSE IF k \in add \ (DOMAIN l) THEN m[k]
     ELSE LET b == CHOOSE c \in (DOMAIN l) \cap add : k \in {c \o "_x", c \o "_y"}
          IN  IF k = b \o "_x" THEN l[b] ELSE m[b]]

\* an inner join: the left rows without a match are dropped
merge_inner(left, right, key, add) ==
  Flatten([i \in DOMAIN left |->
    LET m == Matches(right, key, left[i][key])
    IN  [j \in DOMAIN m |-> merged_row(left[i], m[j], add)]])

\* left.merge(right, on=key, how="left"): the left rows in order, each once
\* per matching right row (in right's order) with that row's other columns,
\* and once with NaN in them when no right row matches.
merge_left(left, right, key, add) ==
  Flatten([i \in DOMAIN left |->
    LET m == Matches(right, key, left[i][key])
    IN  IF m = <<>>
          THEN <<merged_row(left[i], [k \in add |-> NaN], add)>>
          ELSE [j \in DOMAIN m |-> merged_row(left[i], m[j], add)]])

\* normalize_stages: source_stage/std_stage renamed, then the left join
normalize_stages(opp, stage_map) ==
  LET renamed == [i \in DOMAIN stage_map.rows |->
                    [StageName |-> stage_map.rows[i].source_stage,
                     StageStd |-> stage_map.rows[i].std_stage]]
  IN  Frame(merged_columns(opp.cols, {"StageStd"}),
            merge_left(opp.rows, renamed, "StageName", {"StageStd"}))

\* enrich_accounts: Id/Name/Industry renamed, then the left join
enrich_accounts(opp, accts) ==
  LET renamed == [i \in DOMAIN accts.rows |->
                    [AccountId |-> accts.rows[i].Id,
                     AccountName |-> accts.rows[i].Name,
                     AccountIndustry |-> accts.rows[i].Industry,
                     OwnerId |-> accts.rows[i].OwnerId]]
      add == {"AccountName", "AccountIndustry", "OwnerId"}
  IN  Frame(merged_columns(opp.cols, add), merge_left(opp.rows, renamed, "AccountId", add))

\* ------------------------------------------------------------------ FX
\* The largest rate_date among rows (all of them dated)
MaxDate(rows) ==
  CHOOSE d \in {rows[i].rate_date.v : i \in DOMAIN rows} :
    \A i \in DOMAIN rows : rows[i].rate_date.v <= d

\* The lookup without the date filter: the latest-dated row of the currency,
\* also when it is dated after the as-of date
closest_row_latest_overall(fx, currency, asof_date) ==
  IF isna(asof_date) \/ currency = "" THEN {}
  ELSE
    LET sub == SelectSeq(fx, LAMBDA r : r.currency = Upper(currency))
        dated == SelectSeq(sub, LAMBDA r : notna(r.rate_date))
    IN  IF sub = <<>> THEN {}
        ELSE IF dated # <<>>
          THEN {dated[i] : i \in {j \in DOMAIN dated : dated[j].rate_date.v = MaxDate(dated)}}
        ELSE {sub[1]}

\* The lookup without the fallback: no row when none is prior or same
closest_row_no_fallback(fx, currency, asof_date) ==
  IF isna(asof_date) \/ currency = "" THEN {}
  ELSE
    LET sub == SelectSeq(fx, LAMBDA r : r.currency = Upper(currency))
        prior == SelectSeq(sub, LAMBDA r : notna(r.rate_date) /\ r.rate_date.v <= asof_date.v)
    IN  IF prior = <<>> THEN {}
        ELSE {prior[i] : i \in {j \in DOMAIN prior : prior[j].rate_date.v = MaxDate(prior)}}

\* The lookup without the guard on a null as-of date: NaT compares false with
\* every rate date, so the fallback answers
closest_row_null_date_fallback(fx, currency, asof_date) ==
  IF currency = "" THEN {}
  ELSE
    LET sub == SelectSeq(fx, LAMBDA r : r.currency = Upper(currency))
        prior == SelectSeq(sub, LAMBDA r :
                   notna(asof_date) /\ notna(r.rate_date) /\ r.rate_date.v <= asof_date.v)
        dated == SelectSeq(sub, LAMBDA r : notna(r.rate_date))
    IN  IF sub = <<>> THEN {}
        ELSE IF prior # <<>>
          THEN {prior[i] : i \in {j \in DOMAIN prior : prior[j].rate_date.v = MaxDate(prior)}}
        ELSE IF dated # <<>>
          THEN {dated[i] : i \in {j \in DOMAIN dated : dated[j].rate_date.v = MaxDate(dated)}}
        ELSE {sub[1]}

\* closest_prior_or_same_rate: the FX rows whose rate it can return (none: it
\* returns None). fx has upper-cased currencies and parsed rate dates.
\* sort_values(ascending=False) is not stable: of several rows with the
\* latest date any can come first; NaT rows come last, in their order.
closest_prior_or_same_row(fx, currency, asof_date) ==
  IF isna(asof_date) \/ currency = "" THEN {}
  ELSE
    LET sub == SelectSeq(fx, LAMBDA r : r.currency = Upper(currency))
        prior == SelectSeq(sub, LAMBDA r : notna(r.rate_date) /\ r.rate_date.v <= asof_date.v)
        dated == SelectSeq(sub, LAMBDA r : notna(r.rate_date))
    IN  IF sub = <<>> THEN {}
        ELSE IF prior # <<>>
          THEN {prior[i] : i \in {j \in DOMAIN prior : prior[j].rate_date.v = MaxDate(prior)}}
        ELSE IF dated # <<>>
          THEN {dated[i] : i \in {j \in DOMAIN dated : dated[j].rate_date.v = MaxDate(dated)}}
        ELSE {sub[1]}

\* the values closest_prior_or_same_rate can return
closest_prior_or_same_rate(fx, currency, asof_date) ==
  LET from == closest_prior_or_same_row(fx, currency, asof_date)
  IN  IF from = {} THEN {None} ELSE {ToFloat(r.rate_to_usd) : r \in from}

\* whether its float(rate_to_usd) can raise
closest_rate_raises(fx, currency, asof_date) ==
  \E r \in closest_prior_or_same_row(fx, currency, asof_date) : FloatRaises(r.rate_to_usd)

\* apply_fx's copy of the FX table
fx_prepared(fx) ==
  [i \in DOMAIN fx.rows |->
     [fx.rows[i] EXCEPT !.currency = Upper(@), !.rate_date = parse_dt(@)]]

\* to_usd that forgets the rate: the amount itself
to_usd_without_rate(amount, rate) ==
  IF isna(amount) THEN None
  ELSE IF isna(rate) THEN None
  ELSE Float(ToFloat(amount).v * RateScale)

\* to_usd: float(amount) * float(rate), None without a rate; the amount is a
\* string of the CSV, so pd.isna(amount) is false for every cell but a null
to_usd_raises(amount, rate) == notna(amount) /\ notna(rate) /\ FloatRaises(amount)
to_usd(amount, rate) ==
  IF isna(amount) THEN None
  ELSE IF isna(rate) THEN None
  ELSE Float(ToFloat(amount).v * rate.v)

\* safe_float(Amount) of a USD row, in hundredths like every AmountUSD
usd_amount(amount) ==
  LET f == safe_float(amount)
  IN  IF f.t = "float" THEN Float(f.v * RateScale) ELSE f

\* apply_fx without the branch for USD rows
IsUSD_never(row) == FALSE

IsUSD(row) == Upper(row.CurrencyIsoCode) = "USD"

\* apply_fx raises ValueError: a rate that is not a number, or a non-USD row
\* with a rate whose amount is not a number
apply_fx_raises(opp, fx) ==
  LET f == fx_prepared(fx)
  IN  \E i \in DOMAIN opp.rows :
        LET r == opp.rows[i]
        IN  \/ closest_rate_raises(f, r.CurrencyIsoCode, r.CloseDate)
            \/ /\ ~IsUSD(r)
               /\ \E rate \in closest_prior_or_same_rate(f, r.CurrencyIsoCode, r.CloseDate) :
                    to_usd_raises(r.Amount, rate)

\* apply_fx: the frames it can return (one per outcome of the unstable sorts)
apply_fx(opp, fx) ==
  LET f == fx_prepared(fx)
      n == Len(opp.rows)
      out(i) == closest_prior_or_same_rate(f, opp.rows[i].CurrencyIsoCode, opp.rows[i].CloseDate)
      all == UNION {out(i) : i \in 1..n}
      cols == opp.cols \cup {"fx_rate_used", "AmountUSD"}
  IN  {LET rate == InferFloatColumn(pick)
           usd == InferFloatColumn(
                    [i \in 1..n |->
                       IF ~IsUSD(opp.rows[i])
                         THEN to_usd(opp.rows[i].Amount, rate[i])
                         ELSE usd_amount(opp.rows[i].Amount)])
       IN  Frame(cols, SetColumn(SetColumn(opp.rows, "fx_rate_used", rate), "AmountUSD", usd))
       : pick \in {p \in [1..n -> all] : \A i \in 1..n : p[i] \in out(i)}}

\* ------------------------------------------------------------------ metrics
\* Python's `x or 0.0`: None and 0.0 are falsy, NaN is truthy
OrZero(x) == IF x.t = "None" THEN Float(0) ELSE x

\* (AmountUSD or 0.0) * ((Probability or 0.0) / 100.0): hundredths times a
\* percentage is ten-thousandths; NaN in either factor gives NaN
expected_revenue(usd, prob) ==
  LET a == OrZero(usd)
      p == OrZero(prob)
  IN  IF a.t = "NaN" \/ p.t = "NaN" THEN NaN ELSE Float(a.v * p.v)

\* (CloseDate - CreatedDate).dt.days
sales_cycle(close, created) ==
  IF isna(close) \/ isna(created) THEN NaN ELSE Float(close.v - created.v)

\* str.lower() on the flag strings of the model
Lower(s) ==
  CASE s = "True" -> "true"
    [] s = "TRUE" -> "true"
    [] s = "T" -> "t"
    [] s = "Y" -> "y"
    [] s = "False" -> "false"
    [] OTHER -> s

TRUTHY == {"true", "1", "t", "y"}

\* astype(str).str.lower().isin([...]).astype(int)
is_won(flag) == IF Lower(flag) \in TRUTHY THEN 1 ELSE 0

\* is_lost that forgets the won flag: every closed record is lost
is_lost_ignoring_won(closed, won) == IF Lower(closed) \in TRUTHY THEN 1 ELSE 0

\* 1 if str(IsClosed).lower() in [...] and is_won == 0 else 0
is_lost(closed, won) == IF Lower(closed) \in TRUTHY /\ won = 0 THEN 1 ELSE 0

compute_metrics(opp) ==
  LET n == Len(opp.rows)
      amount == InferFloatColumn([i \in 1..n |-> safe_float(opp.rows[i].Amount)])
      prob == InferFloatColumn([i \in 1..n |-> safe_float(opp.rows[i].Probability)])
      typed == [i \in 1..n |->
                  [opp.rows[i] EXCEPT !.Amount = amount[i],
                                      !.Probability = prob[i],
                                      !.CloseDate = parse_dt(@),
                                      !.CreatedDate = parse_dt(@),
                                      !.LastModifiedDate = parse_dt(@)]]
      add == {"expected_revenue_usd", "sales_cycle_days", "is_won", "is_lost"}
  IN  Frame(opp.cols \cup add,
        [i \in 1..n |->
           LET r == typed[i]
           IN  [k \in (DOMAIN r) \cup add |->
                  CASE k = "expected_revenue_usd" -> expected_revenue(r.AmountUSD, r.Probability)
                    [] k = "sales_cycle_days" -> sales_cycle(r.CloseDate, r.CreatedDate)
                    [] k = "is_won" -> is_won(r.IsWon)
                    [] k = "is_lost" -> is_lost(r.IsClosed, is_won(r.IsWon))
                    [] OTHER -> r[k]]])

\* ------------------------------------------------------------------ PII
\* Emails and phones are sequences of one-character strings.
DIGITS == {"0", "1", "2", "3", "4", "5", "6", "7", "8", "9"}
IsBlank(cs) == \A i \in DOMAIN cs : cs[i] = " "

LowerChar(c) ==
  CASE c = "A" -> "a"
    [] c = "B" -> "b"
    [] OTHER -> c

StartsWith(ds, pre) == Len(ds) >= Len(pre) /\ SubSeq(ds, 1, Len(pre)) = pre
Drop(ds, k) == SubSeq(ds, k + 1, Len(ds))
Chars(cs) == Cell("chars", 0, "", cs)

\* normalize_phone that forgets the country code of a 10-digit number
normalize_phone_without_country_code(phone) ==
  IF IsBlank(phone) THEN None
  ELSE
    LET all == SelectSeq(phone, LAMBDA c : c \in DIGITS)
        digits == IF StartsWith(all, <<"1">>) /\ Len(all) = 11 THEN Drop(all, 1) ELSE all
    IN  IF Len(digits) = 10 THEN Chars(<<"+">> \o digits)
        ELSE IF Len(digits) >= 11 /\ StartsWith(digits, <<"0", "0">>) THEN Chars(<<"+">> \o Drop(digits, 2))
        ELSE IF Len(digits) >= 11 /\ StartsWith(digits, <<"0", "1", "1">>) THEN Chars(<<"+">> \o Drop(digits, 3))
        ELSE IF Len(digits) >= 11 THEN Chars(<<"+">> \o digits)
        ELSE None

\* normalize_phone that guesses: a leading "+" on any number of digits
normalize_phone_guessing(phone) ==
  IF IsBlank(phone) THEN None
  ELSE
    LET all == SelectSeq(phone, LAMBDA c : c \in DIGITS)
        digits == IF StartsWith(all, <<"1">>) /\ Len(all) = 11 THEN Drop(all, 1) ELSE all
    IN  IF Len(digits) = 10 THEN Chars(<<"+", "1">> \o digits)
        ELSE IF Len(digits) >= 11 /\ StartsWith(digits, <<"0", "0">>) THEN Chars(<<"+">> \o Drop(digits, 2))
        ELSE IF Len(digits) >= 11 /\ StartsWith(digits, <<"0", "1", "1">>) THEN Chars(<<"+">> \o Drop(digits, 3))
        ELSE Chars(<<"+">> \o digits)

normalize_phone(phone) ==
  IF IsBlank(phone) THEN None
  ELSE
    LET all == SelectSeq(phone, LAMBDA c : c \in DIGITS)
        digits == IF StartsWith(all, <<"1">>) /\ Len(all) = 11 THEN Drop(all, 1) ELSE all
    IN  IF Len(digits) = 10 THEN Chars(<<"+", "1">> \o digits)
        ELSE IF Len(digits) >= 11 /\ StartsWith(digits, <<"0", "0">>) THEN Chars(<<"+">> \o Drop(digits, 2))
        ELSE IF Len(digits) >= 11 /\ StartsWith(digits, <<"0", "1", "1">>) THEN Chars(<<"+">> \o Drop(digits, 3))
        ELSE IF Len(digits) >= 11 /\ StartsWith(digits, <<"1">>) THEN Chars(<<"+">> \o digits)
        ELSE IF Len(digits) >= 11 THEN Chars(<<"+">> \o digits)
        ELSE None

\* hash_email: the digest of the lower-cased email as given (the blank test
\* strips, the hashed string is not stripped). SHA-256 is modelled as
\* injective: the digest is named by the string hashed.
hash_email(email) ==
  IF IsBlank(email) THEN None
  ELSE Cell("sha256", 0, "", [i \in DOMAIN email |-> LowerChar(email[i])])

\* the sanitizer left out: the frame as the metrics left it
sanitize_pii_skipped(opp) == opp

sanitize_pii(opp) ==
  Frame(opp.cols \cup {"owner_email_hash", "phone_normalized"},
    [i \in DOMAIN opp.rows |->
       LET r == opp.rows[i]
       IN  [k \in (DOMAIN r) \cup {"owner_email_hash", "phone_normalized"} |->
              CASE k = "owner_email_hash" -> hash_email(r.OwnerEmail)
                [] k = "phone_normalized" -> normalize_phone(r.Phone)
                [] OTHER -> r[k]]])

\* ------------------------------------------------------------------ projection
\* the list with the raw OwnerEmail in the place of its hash
CANONICAL_COLS_raw_email ==
  <<"Id", "AccountId", "AccountName", "AccountIndustry", "Name",
    "StageName", "StageStd",
    "Amount", "CurrencyIsoCode", "AmountUSD", "expected_revenue_usd", "Probability",
    "CloseDate", "CreatedDate", "LastModifiedDate", "sales_cycle_days",
    "OwnerEmail", "phone_normalized", "is_won", "is_lost">>

CANONICAL_COLS ==
  <<"Id", "AccountId", "AccountName", "AccountIndustry", "Name",
    "StageName", "StageStd",
    "Amount", "CurrencyIsoCode", "AmountUSD", "expected_revenue_usd", "Probability",
    "CloseDate", "CreatedDate", "LastModifiedDate", "sales_cycle_days",
    "owner_email_hash", "phone_normalized", "is_won", "is_lost">>

\* the order of sort_values("CloseDate", na_position="last"): the Id ignored
CloseLeq(a, b) ==
  IF isna(a.CloseDate) /\ isna(b.CloseDate) THEN TRUE
  ELSE IF isna(a.CloseDate) THEN FALSE
  ELSE IF isna(b.CloseDate) THEN TRUE
  ELSE a.CloseDate.v <= b.CloseDate.v

\* a before-or-equal b in sort_values(["CloseDate","Id"], na_position="last")
CloseIdLeq(a, b) ==
  IF isna(a.CloseDate) /\ isna(b.CloseDate) THEN a.Id <= b.Id
  ELSE IF isna(a.CloseDate) THEN FALSE
  ELSE IF isna(b.CloseDate) THEN TRUE
  ELSE \/ a.CloseDate.v < b.CloseDate.v
       \/ a.CloseDate.v = b.CloseDate.v /\ a.Id <= b.Id

\* x put after the rows of the sorted sequence that are before or equal to it
RECURSIVE InsertStable(_, _)
InsertStable(sorted, x) ==
  IF sorted = <<>> THEN <<x>>
  ELSE IF CloseIdLeq(Head(sorted), x) THEN <<Head(sorted)>> \o InsertStable(Tail(sorted), x)
  ELSE <<x>> \o sorted

\* the sort on several columns is a stable lexsort
RECURSIVE sort_close_id(_)
sort_close_id(rows) ==
  IF rows = <<>> THEN <<>>
  ELSE InsertStable(sort_close_id(SubSeq(rows, 1, Len(rows) - 1)), rows[Len(rows)])

\* A frame with its columns in order, as canonical_select returns it
Ordered(order, rows) == [cols |-> Range(order), rows |-> rows, order |-> order]
NoCanon == Ordered(<<>>, <<>>)

canonical_select(opp) ==
  LET existing == SelectSeq(CANONICAL_COLS, LAMBDA c : c \in opp.cols)
  IN  Ordered(existing,
              sort_close_id([i \in DOMAIN opp.rows |->
                               [k \in Range(existing) |-> opp.rows[i][k]]]))

\* ------------------------------------------------------------------ anomalies
Issue(row, code, detail) == [opportunity_id |-> row.Id, code |-> code, detail |-> detail]

\* the amount rule with <= for <: a zero amount flagged too
neg_amount_or_zero(amt) == notna(amt) /\ amt.v <= 0

\* pd.notna(amt) and amt < 0
neg_amount(amt) == notna(amt) /\ amt.v < 0

\* the stage rule with `is None` for pd.isna: the NaN of the join not seen
stage_is_none(stage_std) == stage_std.t = "None"

\* pd.isna(stage_std)
missing_stage(stage_std) == isna(stage_std)

\* the FX rule without its test of the currency code
missing_fx_any_currency(currency, rate) == isna(rate)

\* row.get("CurrencyIsoCode") and pd.isna(fx): a non-empty string is truthy
missing_fx(currency, rate) == currency # "" /\ isna(rate)

\* the probability rule with the bounds 0 and 100 flagged too
prob_oob_inclusive(prob) == notna(prob) /\ (prob.v <= 0 \/ prob.v >= 100)

\* pd.notna(prob) and (prob < 0 or prob > 100)
prob_oob(prob) == notna(prob) /\ (prob.v < 0 \/ prob.v > 100)

\* the close-date rule with >= for >: tomorrow's date flagged too
future_close_from_tomorrow(closed, today) == notna(closed) /\ closed.v >= today + 1

\* pd.notna(closed) and closed > now.normalize() + Timedelta(days=1)
future_close(closed, today) == notna(closed) /\ closed.v > today + 1

\* the rules as an if/elif chain: only the first triggered rule reports
row_issues_first_only(row, today) ==
  IF neg_amount(row.Amount)
    THEN <<Issue(row, "NEG_AMOUNT", "Amount is negative")>>
  ELSE IF prob_oob(row.Probability)
    THEN <<Issue(row, "PROB_OOB", "Probability outside 0-100")>>
  ELSE IF future_close(row.CloseDate, today)
    THEN <<Issue(row, "FUTURE_CLOSE", "CloseDate in the future")>>
  ELSE IF missing_stage(row.StageStd)
    THEN <<Issue(row, "MISSING_STAGE_MAP", "Stage could not be mapped to standard taxonomy")>>
  ELSE IF missing_fx(row.CurrencyIsoCode, row.fx_rate_used)
    THEN <<Issue(row, "MISSING_FX", "FX rate missing for currency/date")>>
  ELSE <<>>

\* the rules on one row, today being the date of pd.Timestamp.now().normalize()
row_issues(row, today) ==
  (IF neg_amount(row.Amount)
     THEN <<Issue(row, "NEG_AMOUNT", "Amount is negative")>> ELSE <<>>)
  \o (IF prob_oob(row.Probability)
     THEN <<Issue(row, "PROB_OOB", "Probability outside 0-100")>> ELSE <<>>)
  \o (IF future_close(row.CloseDate, today)
     THEN <<Issue(row, "FUTURE_CLOSE", "CloseDate in the future")>> ELSE <<>>)
  \o (IF missing_stage(row.StageStd)
     THEN <<Issue(row, "MISSING_STAGE_MAP", "Stage could not be mapped to standard taxonomy")>> ELSE <<>>)
  \o (IF missing_fx(row.CurrencyIsoCode, row.fx_rate_used)
     THEN <<Issue(row, "MISSING_FX", "FX rate missing for currency/date")>> ELSE <<>>)

anomaly_rules(df, today) == Flatten([i \in DOMAIN df.rows |-> row_issues(df.rows[i], today)])

\* ------------------------------------------------------------------ state
VARIABLES
  opportunities_csv,  \* the four input files (never written)
  accounts_csv,
  fx_csv,
  stage_map_csv,
  pc,                 \* where run_pipeline / main stands
  opp,                \* run_pipeline's opp frame; `full` once it has returned
  accts,
  fx,
  stage_map,
  canon,              \* the canonical frame returned
  anomalies,          \* the rows of anomaly_rules(full)
  exc,                \* the exception raised, NoExc when none
  now                 \* the day pd.Timestamp.now() showed anomaly_rules, -1 before

\* An exception: its type, its message and, for the message of the column
\* validation, the two lists the message prints
Exc(type, msg, missing_opp, missing_acct) ==
  [type |-> type, msg |-> msg, missing_opp |-> missing_opp, missing_acct |-> missing_acct]
NoExc == Exc("", "", {}, {})

vars == <<opportunities_csv, accounts_csv, fx_csv, stage_map_csv,
          pc, opp, accts, fx, stage_map, canon, anomalies, exc, now>>

inputs == <<opportunities_csv, accounts_csv, fx_csv, stage_map_csv>>

\* run_pipeline, "# Load"
Load ==
  /\ pc = "start"
  /\ opp' = load_csv(opportunities_csv, DATE_COLS)
  /\ accts' = load_csv(accounts_csv, {})
  /\ fx' = load_csv(fx_csv, {"rate_date"})
  /\ stage_map' = load_csv(stage_map_csv, {})
  /\ pc' = "loaded"
  /\ UNCHANGED <<inputs, canon, anomalies, exc, now>>

\* run_pipeline, "# Validate columns"
Validate ==
  /\ pc = "loaded"
  /\ LET missing_opp == enforce_required(opp, REQUIRED_OPP_COLS)
         missing_acct == enforce_required(accts, REQUIRED_ACCT_COLS)
     IN  IF missing_opp # {} \/ missing_acct # {}
           THEN /\ pc' = "raised"
                /\ exc' = Exc("ValueError", "Missing columns", missing_opp, missing_acct)
           ELSE pc' = "validated" /\ exc' = exc
  /\ UNCHANGED <<inputs, opp, accts, fx, stage_map, canon, anomalies, now>>

\* run_pipeline, "# Dedupe"
Dedupe ==
  /\ pc = "validated"
  /\ opp' \in dedupe_latest(opp)
  /\ pc' = "deduped"
  /\ UNCHANGED <<inputs, accts, fx, stage_map, canon, anomalies, exc, now>>

\* run_pipeline, "# Stage normalization"
NormalizeStages ==
  /\ pc = "deduped"
  /\ opp' = normalize_stages(opp, stage_map)
  /\ pc' = "staged"
  /\ UNCHANGED <<inputs, accts, fx, stage_map, canon, anomalies, exc, now>>

\* run_pipeline, "# Enrich with account fields"
EnrichAccounts ==
  /\ pc = "staged"
  /\ opp' = enrich_accounts(opp, accts)
  /\ pc' = "enriched"
  /\ UNCHANGED <<inputs, accts, fx, stage_map, canon, anomalies, exc, now>>

\* run_pipeline, apply_fx
ApplyFx ==
  /\ pc = "enriched"
  /\ IF apply_fx_raises(opp, fx)
       THEN /\ pc' = "raised"
            /\ exc' = Exc("ValueError", "could not convert string to float", {}, {})
            /\ opp' = opp
       ELSE pc' = "converted" /\ exc' = exc /\ opp' \in apply_fx(opp, fx)
  /\ UNCHANGED <<inputs, accts, fx, stage_map, canon, anomalies, now>>

\* run_pipeline, compute_metrics
ComputeMetrics ==
  /\ pc = "converted"
  /\ opp' = compute_metrics(opp)
  /\ pc' = "measured"
  /\ UNCHANGED <<inputs, accts, fx, stage_map, canon, anomalies, exc, now>>

\* run_pipeline, sanitize_pii
SanitizePii ==
  /\ pc = "measured"
  /\ opp' = sanitize_pii(opp)
  /\ pc' = "sanitized"
  /\ UNCHANGED <<inputs, accts, fx, stage_map, canon, anomalies, exc, now>>

\* run_pipeline, canonical_select and the return of (canon, opp)
CanonicalSelect ==
  /\ pc = "sanitized"
  /\ canon' = canonical_select(opp)
  /\ pc' = "returned"
  /\ UNCHANGED <<inputs, opp, accts, fx, stage_map, anomalies, exc, now>>

\* main: anomalies = anomaly_rules(full), on the day the clock shows
AnomalyRules ==
  /\ pc = "returned"
  /\ \E today \in 0..MaxDay :
       /\ now' = today
       /\ anomalies' = anomaly_rules(opp, today)
  /\ pc' = "done"
  /\ UNCHANGED <<inputs, opp, accts, fx, stage_map, canon, exc>>

\* run_pipeline as a function of its four files: the enriched frames it can
\* return when no stage raises
run_pipeline(o, a, f, s) ==
  LET deduped == dedupe_latest(load_csv(o, DATE_COLS))
      enriched == {enrich_accounts(normalize_stages(d, load_csv(s, {})), load_csv(a, {})) :
                     d \in deduped}
      converted == UNION {apply_fx(x, load_csv(f, {"rate_date"})) : x \in enriched}
  IN  {sanitize_pii(compute_metrics(x)) : x \in converted}

\* main as a function of the files: the pairs (canon, anomalies) an
\* invocation can write, over the days it can run on
main(o, a, f, s) ==
  {<<canonical_select(full), anomaly_rules(full, today)>> :
     full \in run_pipeline(o, a, f, s), today \in 0..MaxDay}

Next ==
  \/ Load
  \/ Validate
  \/ Dedupe
  \/ NormalizeStages
  \/ EnrichAccounts
  \/ ApplyFx
  \/ ComputeMetrics
  \/ SanitizePii
  \/ CanonicalSelect
  \/ AnomalyRules

\* ------------------------------------------------------------------ inputs
OppNames == <<"Opp A", "Opp B", "Opp C", "Opp D", "Opp E", "Opp F">>

\* The i-th row of an opportunity file, every field well formed
BaseOpp(i) ==
  [Id |-> 1, AccountId |-> "A1", Name |-> OppNames[i], StageName |-> "Negotiation",
   Amount |-> NumStr(85000), CurrencyIsoCode |-> "EUR", Probability |-> NumStr(72),
   CloseDate |-> DateStr(1), CreatedDate |-> DateStr(1), LastModifiedDate |-> DateStr(1),
   OwnerEmail |-> <<"A", "@", "b">>,
   Phone |-> <<"4", "1", "5", "-", "5", "5", "5", "-", "0", "1", "0", "0">>,
   IsWon |-> "false", IsClosed |-> "false"]

ACCT_COLS == REQUIRED_ACCT_COLS
FX_COLS == {"currency", "rate_to_usd", "rate_date"}
STAGE_COLS == {"source_stage", "std_stage"}

BaseAccounts ==
  Frame(ACCT_COLS, <<[Id |-> "A1", Name |-> Str("Acme"), Industry |-> Str("Tech"), OwnerId |-> Str("U1")]>>)
BaseFx ==
  Frame(FX_COLS, <<[currency |-> "EUR", rate_date |-> DateStr(1), rate_to_usd |-> NumStr(108)]>>)
BaseStageMap ==
  Frame(STAGE_COLS, <<[source_stage |-> "Negotiation", std_stage |-> Str("Commit")]>>)

\* what a date cell of a CSV can hold: blank, unparseable text, a date
DateCells == {Str(""), Str("n/a")} \cup {DateStr(d) : d \in Days}
StampCells == {Str(""), Str("n/a")} \cup {DateStr(d) : d \in 1..MaxStamp}

InitRun ==
  /\ pc = "start"
  /\ opp = NoFrame
  /\ accts = NoFrame
  /\ fx = NoFrame
  /\ stage_map = NoFrame
  /\ canon = NoCanon
  /\ anomalies = <<>>
  /\ exc = NoExc
  /\ now = -1

\* Opportunity files that differ in Id and LastModifiedDate
DedupeOpps(f) ==
  [i \in DOMAIN f |-> [BaseOpp(i) EXCEPT !.Id = f[i][1], !.LastModifiedDate = f[i][2]]]

InitDedupe ==
  /\ \E n \in 1..MaxOpps : \E f \in [1..n -> Ids \X StampCells] :
       opportunities_csv = Frame(REQUIRED_OPP_COLS, DedupeOpps(f))
  /\ accounts_csv = BaseAccounts
  /\ fx_csv = BaseFx
  /\ stage_map_csv = BaseStageMap
  /\ InitRun

SpecDedupe == InitDedupe /\ [][Next]_vars

\* One opportunity against FX tables: the opportunity's currency, close date
\* and amount vary. An FX table is up to MaxFx euro rows of any dates, with
\* or without a dollar row before them. The i-th euro row carries the i-th
\* rate, so a rate names the row it came from.
FxRates == <<NumStr(108), NumStr(110), NumStr(95), NumStr(112)>>
UsdRow == [currency |-> "USD", rate_date |-> DateStr(1), rate_to_usd |-> NumStr(120)]
OppCurrencies == {"USD", "eur", "JPY"}
AmountCells == {Str(""), Str("n/a"), NumStr(85000)}
RateDateCells == {Str("")} \cup {DateStr(d) : d \in Days}

EurRows(f) ==
  [i \in DOMAIN f |-> [currency |-> "Eur", rate_date |-> f[i], rate_to_usd |-> FxRates[i]]]

FxOpp(c, d, a) == <<[BaseOpp(1) EXCEPT !.CurrencyIsoCode = c, !.CloseDate = d, !.Amount = a]>>

InitFx ==
  /\ \E c \in OppCurrencies, d \in DateCells, a \in AmountCells :
       opportunities_csv = Frame(REQUIRED_OPP_COLS, FxOpp(c, d, a))
  /\ accounts_csv = BaseAccounts
  /\ \E usd \in {<<>>, <<UsdRow>>} : \E n \in 0..MaxFx : \E f \in [1..n -> RateDateCells] :
       fx_csv = Frame(FX_COLS, usd \o EurRows(f))
  /\ stage_map_csv = BaseStageMap
  /\ InitRun

SpecFx == InitFx /\ [][Next]_vars

\* Opportunities against reference tables: up to MaxJoin opportunities that
\* differ in Id and stage, a stage-mapping table and an account table of up
\* to MaxRef rows each, of any keys (repeated keys included). The i-th row
\* of a table carries the i-th label, so a label names the row it came from.
JoinStages == {"Negotiation", "Discovery"}
JoinAccounts == {"A1", "A2"}
StdStages == <<Str("Commit"), Str("Pipeline"), Str("Closed"), Str("Qualify")>>
AcctNames == <<Str("Acme"), Str("Globex"), Str("Initech"), Str("Umbrella")>>

JoinOpps(f) ==
  [i \in DOMAIN f |-> [BaseOpp(i) EXCEPT !.Id = f[i][1], !.StageName = f[i][2]]]
StageRows(f) == [i \in DOMAIN f |-> [source_stage |-> f[i], std_stage |-> StdStages[i]]]
AcctRows(f) ==
  [i \in DOMAIN f |-> [Id |-> f[i], Name |-> AcctNames[i], Industry |-> Str("Tech"), OwnerId |-> Str("U1")]]

InitJoin ==
  /\ \E n \in 1..MaxJoin : \E f \in [1..n -> Ids \X JoinStages] :
       opportunities_csv = Frame(REQUIRED_OPP_COLS, JoinOpps(f))
  /\ \E n \in 0..MaxRef : \E f \in [1..n -> JoinAccounts] :
       accounts_csv = Frame(ACCT_COLS, AcctRows(f))
  /\ fx_csv = BaseFx
  /\ \E n \in 0..MaxRef : \E f \in [1..n -> JoinStages] :
       stage_map_csv = Frame(STAGE_COLS, StageRows(f))
  /\ InitRun

SpecJoin == InitJoin /\ [][Next]_vars

\* Opportunities that differ in currency, amount and probability, against
\* the one-row FX table. The rows have distinct Ids, or all share one Id and
\* each row is modified a day after the row before it.
MetricCurrencies == {"USD", "eur"}
MetricAmounts == {Str(""), NumStr(0), NumStr(85000)}
MetricProbs == {Str(""), NumStr(0), NumStr(72)}

MetricOpps(f, same) ==
  [i \in DOMAIN f |->
     [BaseOpp(i) EXCEPT !.Id = IF same THEN 1 ELSE i,
                        !.LastModifiedDate = DateStr(i),
                        !.CurrencyIsoCode = f[i][1],
                        !.Amount = f[i][2],
                        !.Probability = f[i][3]]]

InitMetrics ==
  /\ \E n \in 1..MaxMetric : \E f \in [1..n -> MetricCurrencies \X MetricAmounts \X MetricProbs] :
       \E same \in BOOLEAN :
         opportunities_csv = Frame(REQUIRED_OPP_COLS, MetricOpps(f, same))
  /\ accounts_csv = BaseAccounts
  /\ fx_csv = BaseFx
  /\ stage_map_csv = BaseStageMap
  /\ InitRun

SpecMetrics == InitMetrics /\ [][Next]_vars

\* Opportunities that differ in the won and closed flags
MaxFlagged == 1
FlagCells == {"true", "TRUE", "1", "T", "y", "false", "0", "", "yes"}

FlagOpps(f) ==
  [i \in DOMAIN f |-> [BaseOpp(i) EXCEPT !.Id = i, !.IsWon = f[i][1], !.IsClosed = f[i][2]]]

InitFlags ==
  /\ \E n \in 1..MaxFlagged : \E f \in [1..n -> FlagCells \X FlagCells] :
       opportunities_csv = Frame(REQUIRED_OPP_COLS, FlagOpps(f))
  /\ accounts_csv = BaseAccounts
  /\ fx_csv = BaseFx
  /\ stage_map_csv = BaseStageMap
  /\ InitRun

SpecFlags == InitFlags /\ [][Next]_vars

\* Files that lack columns: up to MaxMissing required columns are absent
\* from the opportunity file and from the account file (each has a header
\* line, so at least one column). The opportunity's amount is a number or
\* empty.
MaxMissing == 2
Without(row, missing) == [k \in (DOMAIN row) \ missing |-> row[k]]
Absent(required) == {m \in SUBSET required : Cardinality(m) <= MaxMissing}

InitSchema ==
  /\ \E m \in Absent(REQUIRED_OPP_COLS), a \in {NumStr(85000), Str("")}, c \in {"EUR", "USD"} :
       opportunities_csv =
         Frame(REQUIRED_OPP_COLS \ m,
               <<Without([BaseOpp(1) EXCEPT !.Amount = a, !.CurrencyIsoCode = c], m)>>)
  /\ \E m \in Absent(REQUIRED_ACCT_COLS) :
       accounts_csv = Frame(ACCT_COLS \ m, <<Without(BaseAccounts.rows[1], m)>>)
  /\ fx_csv = BaseFx
  /\ stage_map_csv = BaseStageMap
  /\ InitRun

SpecSchema == InitSchema /\ [][Next]_vars

\* Opportunities of distinct Ids in any file order, with close dates that
\* are unparseable, equal or different; each row is modified a day after the
\* row before it.
MaxSort == 3
SortDates == {Str("n/a"), DateStr(1), DateStr(2)}

SortOpps(p, f) ==
  [i \in DOMAIN f |->
     [BaseOpp(i) EXCEPT !.Id = p[i], !.LastModifiedDate = DateStr(i), !.CloseDate = f[i]]]

InitSort ==
  /\ \E n \in 1..MaxSort : \E p \in Perms(n), f \in [1..n -> SortDates] :
       opportunities_csv = Frame(REQUIRED_OPP_COLS, SortOpps(p, f))
  /\ accounts_csv = BaseAccounts
  /\ fx_csv = BaseFx
  /\ stage_map_csv = BaseStageMap
  /\ InitRun

SpecSort == InitSort /\ [][Next]_vars

\* One opportunity whose phone is any head of up to MaxHead digits among
\* 0, 1 and 5, followed by up to MaxTail digits 5, written plainly, with a
\* leading "+", with brackets and spaces, or between spaces (the empty and
\* the blank string among them).
MaxHead == 4
MaxTail == 10
HeadDigits == {"0", "1", "5"}
PhoneFormats == {"plain", "plus", "brackets", "spaces"}

PhoneString(head, k, fmt) ==
  LET tail == [i \in 1..k |-> "5"]
  IN  CASE fmt = "plain" -> head \o tail
        [] fmt = "plus" -> <<"+">> \o head \o tail
        [] fmt = "brackets" -> <<"(">> \o head \o <<")", " ">> \o tail
        [] fmt = "spaces" -> <<" ">> \o head \o tail \o <<" ">>

InitPhone ==
  /\ \E n \in 0..MaxHead : \E head \in [1..n -> HeadDigits] :
       \E k \in 0..MaxTail, fmt \in PhoneFormats :
         opportunities_csv =
           Frame(REQUIRED_OPP_COLS, <<[BaseOpp(1) EXCEPT !.Phone = PhoneString(head, k, fmt)]>>)
  /\ accounts_csv = BaseAccounts
  /\ fx_csv = BaseFx
  /\ stage_map_csv = BaseStageMap
  /\ InitRun

SpecPhone == InitPhone /\ [][Next]_vars

\* Opportunities of distinct Ids that differ in the owner's email: the same
\* address in two letter cases, with a space before or after it, another
\* address, the empty and the blank string.
MaxOwners == 2
EmailCells ==
  {<<"A", "@", "b">>, <<"a", "@", "b">>, <<" ", "a", "@", "b">>, <<"a", "@", "b", " ">>,
   <<"b", "@", "a">>, <<>>, <<" ">>}

EmailOpps(f) == [i \in DOMAIN f |-> [BaseOpp(i) EXCEPT !.Id = i, !.OwnerEmail = f[i]]]

InitEmail ==
  /\ \E n \in 1..MaxOwners : \E f \in [1..n -> EmailCells] :
       opportunities_csv = Frame(REQUIRED_OPP_COLS, EmailOpps(f))
  /\ accounts_csv = BaseAccounts
  /\ fx_csv = BaseFx
  /\ stage_map_csv = BaseStageMap
  /\ InitRun

SpecEmail == InitEmail /\ [][Next]_vars

\* Opportunities of distinct Ids, each modified a day after the one before,
\* that differ in amount (empty, negative, zero, positive), currency and
\* stage, against a stage-mapping table that maps one stage to a label, one
\* stage to the empty string and the third stage not at all.
MaxFlawed == 2
FlawedAmounts == {Str(""), NumStr(-500), NumStr(0), NumStr(85000)}
FlawedCurrencies == {"USD", "EUR"}
FlawedStages == {"Negotiation", "Qualification", "Prospecting"}

FlawedOpps(f) ==
  [i \in DOMAIN f |->
     [BaseOpp(i) EXCEPT !.Id = i, !.LastModifiedDate = DateStr(i),
                        !.Amount = f[i][1], !.CurrencyIsoCode = f[i][2], !.StageName = f[i][3]]]

FlawedStageMap ==
  Frame(STAGE_COLS, <<[source_stage |-> "Negotiation", std_stage |-> Str("Commit")],
                      [source_stage |-> "Qualification", std_stage |-> Str("")]>>)

InitAnomaly ==
  /\ \E n \in 1..MaxFlawed :
       \E f \in [1..n -> FlawedAmounts \X FlawedCurrencies \X FlawedStages] :
         opportunities_csv = Frame(REQUIRED_OPP_COLS, FlawedOpps(f))
  /\ accounts_csv = BaseAccounts
  /\ fx_csv = BaseFx
  /\ stage_map_csv = FlawedStageMap
  /\ InitRun

SpecAnomaly == InitAnomaly /\ [][Next]_vars

\* Opportunities of distinct Ids and a numeric amount, each modified a day
\* after the one before, that differ in currency code (empty, spaces, USD,
\* euro, yen) and close date (empty or a date), against an FX table that is
\* empty, holds a euro row, or holds a dollar row and a euro row.
MaxCurr == 2
CurrCodes == {"", " ", "USD", "eur", "JPY"}
CurrDates == {Str(""), DateStr(1)}
CurrFx == {<<>>, BaseFx.rows, <<UsdRow>> \o BaseFx.rows}

CurrOpps(f) ==
  [i \in DOMAIN f |->
     [BaseOpp(i) EXCEPT !.Id = i, !.LastModifiedDate = DateStr(i),
                        !.CurrencyIsoCode = f[i][1], !.CloseDate = f[i][2]]]

InitCurrency ==
  /\ \E n \in 1..MaxCurr : \E f \in [1..n -> CurrCodes \X CurrDates] :
       opportunities_csv = Frame(REQUIRED_OPP_COLS, CurrOpps(f))
  /\ accounts_csv = BaseAccounts
  /\ \E rows \in CurrFx : fx_csv = Frame(FX_COLS, rows)
  /\ stage_map_csv = BaseStageMap
  /\ InitRun

SpecCurrency == InitCurrency /\ [][Next]_vars

\* Opportunities of distinct Ids, each modified a day after the one before,
\* that differ in probability: empty, below 0, 0, inside, 100, above 100.
MaxProb == 2
ProbCells == {Str(""), NumStr(-1), NumStr(0), NumStr(72), NumStr(100), NumStr(101)}

ProbOpps(f) ==
  [i \in DOMAIN f |->
     [BaseOpp(i) EXCEPT !.Id = i, !.LastModifiedDate = DateStr(i), !.Probability = f[i]]]

InitProb ==
  /\ \E n \in 1..MaxProb : \E f \in [1..n -> ProbCells] :
       opportunities_csv = Frame(REQUIRED_OPP_COLS, ProbOpps(f))
  /\ accounts_csv = BaseAccounts
  /\ fx_csv = BaseFx
  /\ stage_map_csv = BaseStageMap
  /\ InitRun

SpecProb == InitProb /\ [][Next]_vars

\* Opportunities of distinct Ids, each modified a day after the one before,
\* that differ in close date: empty, unparseable, or any day.
MaxClose == 2

CloseOpps(f) ==
  [i \in DOMAIN f |->
     [BaseOpp(i) EXCEPT !.Id = i, !.LastModifiedDate = DateStr(i), !.CloseDate = f[i]]]

InitClose ==
  /\ \E n \in 1..MaxClose : \E f \in [1..n -> DateCells] :
       opportunities_csv = Frame(REQUIRED_OPP_COLS, CloseOpps(f))
  /\ accounts_csv = BaseAccounts
  /\ fx_csv = BaseFx
  /\ stage_map_csv = BaseStageMap
  /\ InitRun

SpecClose == InitClose /\ [][Next]_vars

\* Opportunities of distinct Ids that reference account A1, A2 or the absent
\* A3, over account tables of up to MaxRef rows for A1 and A2, each row with
\* a name and an industry of its own.
MaxLinked == 2
LinkedAccounts == {"A1", "A2", "A3"}
AcctIndustries == <<Str("Tech"), Str("Retail"), Str("Energy"), Str("Health")>>

LinkedOpps(f) ==
  [i \in DOMAIN f |->
     [BaseOpp(i) EXCEPT !.Id = i, !.LastModifiedDate = DateStr(i), !.AccountId = f[i]]]
LinkedAccts(f) ==
  [i \in DOMAIN f |->
     [Id |-> f[i], Name |-> AcctNames[i], Industry |-> AcctIndustries[i], OwnerId |-> Str("U1")]]

InitAccounts ==
  /\ \E n \in 1..MaxLinked : \E f \in [1..n -> LinkedAccounts] :
       opportunities_csv = Frame(REQUIRED_OPP_COLS, LinkedOpps(f))
  /\ \E n \in 0..MaxRef : \E f \in [1..n -> JoinAccounts] :
       accounts_csv = Frame(ACCT_COLS, LinkedAccts(f))
  /\ fx_csv = BaseFx
  /\ stage_map_csv = BaseStageMap
  /\ InitRun

SpecAccounts == InitAccounts /\ [][Next]_vars

\* Opportunities of distinct Ids, each with a set of defects: a negative
\* amount, a probability above 100, the latest close date, a stage the
\* mapping lacks, a currency without rates.  The first opportunity has any
\* set of defects, the others none or all.
MaxRuled == 2
RULE_CODES == {"NEG_AMOUNT", "PROB_OOB", "FUTURE_CLOSE", "MISSING_STAGE_MAP", "MISSING_FX"}

RuledOpp(i, d) ==
  [BaseOpp(i) EXCEPT
     !.Id = i, !.LastModifiedDate = DateStr(i),
     !.Amount = IF "NEG_AMOUNT" \in d THEN NumStr(-500) ELSE NumStr(85000),
     !.Probability = IF "PROB_OOB" \in d THEN NumStr(101) ELSE NumStr(72),
     !.CloseDate = IF "FUTURE_CLOSE" \in d THEN DateStr(MaxDay) ELSE DateStr(1),
     !.StageName = IF "MISSING_STAGE_MAP" \in d THEN "Prospecting" ELSE "Negotiation",
     !.CurrencyIsoCode = IF "MISSING_FX" \in d THEN "JPY" ELSE "EUR"]

InitRules ==
  /\ \E n \in 1..MaxRuled : \E d \in SUBSET RULE_CODES : \E g \in [2..n -> {{}, RULE_CODES}] :
       opportunities_csv =
         Frame(REQUIRED_OPP_COLS, [i \in 1..n |-> RuledOpp(i, IF i = 1 THEN d ELSE g[i])])
  /\ accounts_csv = BaseAccounts
  /\ fx_csv = BaseFx
  /\ stage_map_csv = BaseStageMap
  /\ InitRun

SpecRules == InitRules /\ [][Next]_vars

\* Opportunity files with columns beyond the required ones: a Description,
\* the opportunity's own OwnerId, an AccountName exported with it.  The rows
\* have distinct Ids and close on day 1 or 2.
MaxProjected == 2
EXTRA_COLS == {"Description", "OwnerId", "AccountName"}
ExtraCells == [Description |-> Str("Renewal"), OwnerId |-> Str("U9"), AccountName |-> Str("Old")]

ProjectedOpps(f, extra) ==
  [i \in DOMAIN f |->
     LET base == [BaseOpp(i) EXCEPT !.Id = i, !.LastModifiedDate = DateStr(i), !.CloseDate = f[i]]
     IN  [k \in REQUIRED_OPP_COLS \cup extra |->
            IF k \in extra THEN ExtraCells[k] ELSE base[k]]]

InitProject ==
  /\ \E n \in 1..MaxProjected : \E f \in [1..n -> {DateStr(1), DateStr(2)}] :
       \E extra \in SUBSET EXTRA_COLS :
         opportunities_csv = Frame(REQUIRED_OPP_COLS \cup extra, ProjectedOpps(f, extra))
  /\ accounts_csv = BaseAccounts
  /\ fx_csv = BaseFx
  /\ stage_map_csv = BaseStageMap
  /\ InitRun

SpecProject == InitProject /\ [][Next]_vars

Spec == SpecMetrics

\* ------------------------------------------------------------------ claims
\* The opportunity frame as run_pipeline loaded it
Loaded == load_csv(opportunities_csv, DATE_COLS).rows

\* The loaded rows that share an Id
Group(id) == {r \in Range(Loaded) : r.Id = id}
LoadedIds == {r.Id : r \in Range(Loaded)}

\* A timestamp as the specification orders it: NaT before every date
TsRank(x) == IF isna(x) THEN 0 ELSE x.v

\* the rows of a frame with a given Id
RowsOf(df, id) == {i \in DOMAIN df.rows : df.rows[i].Id = id}

\* C1: dedupe_latest returns exactly one row per distinct Id, and that row is
\* a row of the input group whose parsed LastModifiedDate is maximal within
\* the group of rows sharing that Id.
C1_DedupeLatestMaximal ==
  pc = "deduped" =>
    /\ {opp.rows[i].Id : i \in DOMAIN opp.rows} = LoadedIds
    /\ \A id \in LoadedIds :
         /\ Cardinality(RowsOf(opp, id)) = 1
         /\ \A i \in RowsOf(opp, id) :
              /\ opp.rows[i] \in Group(id)
              /\ \A q \in Group(id) :
                   TsRank(q.LastModifiedDate) <= TsRank(opp.rows[i].LastModifiedDate)

\* C2: whenever a group of rows sharing an Id contains at least one row with
\* a valid timestamp, the row that survives dedupe_latest has a valid
\* timestamp.
C2_ValidTimestampPreferred ==
  pc = "deduped" =>
    \A id \in LoadedIds :
      (\E q \in Group(id) : notna(q.LastModifiedDate)) =>
        \A i \in RowsOf(opp, id) : notna(opp.rows[i].LastModifiedDate)


\* The FX rows of the opportunity's currency (codes compared upper-cased)
\* that carry a date, and those dated on or before its close date
FxDated(r) ==
  {f \in Range(fx.rows) : Upper(f.currency) = Upper(r.CurrencyIsoCode) /\ notna(f.rate_date)}
FxPrior(r) == {f \in FxDated(r) : notna(r.CloseDate) /\ f.rate_date.v <= r.CloseDate.v}
\* the rates of the latest-dated rows of a set of FX rows
LatestRates(rows) ==
  {Float(f.rate_to_usd.v) : f \in {g \in rows : \A h \in rows : h.rate_date.v <= g.rate_date.v}}
\* the rate the lookup can resolve for a row before apply_fx runs
Resolved(r) == closest_prior_or_same_rate(fx_prepared(fx), r.CurrencyIsoCode, r.CloseDate)
OppRows == Range(opp.rows)
NonUSD(r) == Upper(r.CurrencyIsoCode) # "USD"

\* C4: for a non-USD opportunity whose close date is on or after some FX rate
\* date of its currency, the resolved rate is the rate of the FX row with the
\* latest rate date <= the close date (never a later row, never the nearest
\* by absolute difference).
C4_AsOfRate ==
  /\ pc = "enriched" =>
       \A r \in OppRows : NonUSD(r) /\ FxPrior(r) # {} => Resolved(r) \subseteq LatestRates(FxPrior(r))
  /\ pc = "converted" =>
       \A r \in OppRows : NonUSD(r) /\ FxPrior(r) # {} => r.fx_rate_used \in LatestRates(FxPrior(r))

\* a later FX row is nearer to the close date than the prior row whose rate
\* was used
C4_Witness ==
  /\ pc = "converted"
  /\ \E r \in OppRows :
       /\ NonUSD(r)
       /\ \E f \in FxPrior(r), g \in FxDated(r) :
            /\ g.rate_date.v > r.CloseDate.v
            /\ g.rate_date.v - r.CloseDate.v < r.CloseDate.v - f.rate_date.v
            /\ FxPrior(r) = {f}
            /\ r.fx_rate_used = Float(f.rate_to_usd.v)

\* C5: for a non-USD opportunity with a non-null close date that predates
\* every FX rate date of its currency (which has at least one), the resolved
\* rate is the rate of the latest-dated FX row of that currency.
C5_FallbackLatest ==
  /\ pc = "enriched" =>
       \A r \in OppRows :
         NonUSD(r) /\ notna(r.CloseDate) /\ FxDated(r) # {} /\ FxPrior(r) = {}
           => Resolved(r) \subseteq LatestRates(FxDated(r))
  /\ pc = "converted" =>
       \A r \in OppRows :
         NonUSD(r) /\ notna(r.CloseDate) /\ FxDated(r) # {} /\ FxPrior(r) = {}
           => r.fx_rate_used \in LatestRates(FxDated(r))

\* the close date predates two FX rows of different dates, the later one used
C5_Witness ==
  /\ pc = "converted"
  /\ \E r \in OppRows :
       /\ NonUSD(r) /\ notna(r.CloseDate) /\ FxPrior(r) = {}
       /\ \E f, g \in FxDated(r) :
            f.rate_date.v < g.rate_date.v /\ r.fx_rate_used = Float(g.rate_to_usd.v)

\* C6 as stated: for a non-USD opportunity whose close date is null and whose
\* currency has at least one FX row, the resolved rate falls back to the
\* latest-dated rate, so fx_rate_used and AmountUSD are non-null when the
\* amount is numeric.
C6_NullCloseFallsBack ==
  pc = "converted" =>
    \A r \in OppRows :
      NonUSD(r) /\ isna(r.CloseDate) /\ FxDated(r) # {} =>
        /\ r.fx_rate_used \in LatestRates(FxDated(r))
        /\ ~FloatRaises(r.Amount) => notna(r.AmountUSD)

\* C6 as amended: for a non-USD opportunity whose close date is null (empty
\* or unparseable) the lookup resolves no rate, whatever FX rows its currency
\* has: fx_rate_used and AmountUSD are null, and the conversion does not
\* raise on that row.
C6_NullCloseNoRate ==
  /\ pc = "enriched" =>
       \A r \in OppRows : NonUSD(r) /\ isna(r.CloseDate) => Resolved(r) = {None}
  /\ pc = "converted" =>
       \A r \in OppRows :
         NonUSD(r) /\ isna(r.CloseDate) => isna(r.fx_rate_used) /\ isna(r.AmountUSD)
  /\ pc = "raised" => \E r \in OppRows : notna(r.CloseDate)

\* a null close date, a dated FX row of the currency, a numeric amount
C6_Witness ==
  /\ pc = "converted"
  /\ \E r \in OppRows :
       /\ NonUSD(r) /\ isna(r.CloseDate) /\ FxDated(r) # {} /\ ~FloatRaises(r.Amount)
       /\ isna(r.AmountUSD)

\* C7: for every opportunity whose currency is "USD", AmountUSD equals the
\* numeric value of Amount, and is null when Amount is empty or non-numeric,
\* regardless of the FX table and of the close date.
C7_UsdPassThrough ==
  pc = "converted" =>
    \A r \in OppRows :
      r.CurrencyIsoCode = "USD" =>
        IF r.Amount.t = "numstr"
          THEN r.AmountUSD = Float(r.Amount.v * RateScale)
          ELSE isna(r.AmountUSD)

\* a USD opportunity with a numeric amount, where the FX table holds a USD
\* row dated on or before the close date with a rate other than 1
C7_Witness ==
  /\ pc = "converted"
  /\ \E r \in OppRows :
       /\ r.CurrencyIsoCode = "USD" /\ r.Amount.t = "numstr"
       /\ \E f \in FxPrior(r) : f.rate_to_usd.v # RateScale
       /\ notna(r.fx_rate_used)
       /\ r.AmountUSD = Float(r.Amount.v * RateScale)

\* C8: for every non-USD opportunity apply_fx never raises; when the amount
\* is null, empty or non-numeric, or the resolved rate is null, AmountUSD is
\* null.
C8_ConversionNeverRaises ==
  /\ pc # "raised"
  /\ pc = "converted" =>
       \A r \in OppRows :
         NonUSD(r) /\ (FloatRaises(r.Amount) \/ isna(r.fx_rate_used)) => isna(r.AmountUSD)


Returned == pc \in {"returned", "done"}

\* C3: both tables returned by run_pipeline (canonical and enriched) contain
\* exactly one row per distinct opportunity Id of the input, whatever the
\* account table and the stage-mapping table hold.
C3_OneRowPerId ==
  Returned =>
    /\ {r.Id : r \in Range(canon.rows)} = LoadedIds
    /\ {r.Id : r \in Range(opp.rows)} = LoadedIds
    /\ \A id \in LoadedIds :
         Cardinality(RowsOf(canon, id)) = 1 /\ Cardinality(RowsOf(opp, id)) = 1

\* The loaded rows that are the latest-modified of their Id, all rows of the
\* Id carrying a timestamp
Survivors ==
  {q \in Range(Loaded) :
     \A g \in Group(q.Id) :
       notna(g.LastModifiedDate) /\ g.LastModifiedDate.v <= q.LastModifiedDate.v}

\* C9: for a non-USD opportunity with numeric amount a, probability p and
\* resolved as-of rate r, the latest-modified version of the record comes
\* out of run_pipeline with AmountUSD = a * r and expected_revenue_usd =
\* a * r * p / 100, in the canonical and in the enriched table.
C9_AmountAndRevenue ==
  Returned =>
    \A q \in Survivors :
      NonUSD(q) /\ q.Amount.t = "numstr" /\ q.Probability.t = "numstr" /\ FxPrior(q) # {} =>
        \A df \in {canon, opp} :
          /\ RowsOf(df, q.Id) # {}
          /\ \A i \in RowsOf(df, q.Id) :
               \E rate \in LatestRates(FxPrior(q)) :
                 /\ df.rows[i].AmountUSD = Float(q.Amount.v * rate.v)
                 /\ df.rows[i].expected_revenue_usd = Float(q.Amount.v * rate.v * q.Probability.v)

\* the example of the test: 85000 at 1.08 with probability 72 gives 91800.00
\* and 66096.0000, on a record that replaced an earlier version of itself
C9_Witness ==
  /\ pc = "done"
  /\ Len(Loaded) > Len(canon.rows)
  /\ \E q \in Survivors :
       /\ NonUSD(q) /\ q.Amount = NumStr(85000) /\ q.Probability = NumStr(72)
       /\ Float(108) \in LatestRates(FxPrior(q))
       /\ \E i \in RowsOf(canon, q.Id) :
            /\ canon.rows[i].Name = q.Name
            /\ canon.rows[i].AmountUSD = Float(9180000)
            /\ canon.rows[i].expected_revenue_usd = Float(660960000)

\* C10: expected_revenue_usd = (AmountUSD or 0) * ((Probability or 0) / 100):
\* it is never null, and it is 0 whenever AmountUSD or Probability is null.
NullAsZero(x) == IF isna(x) THEN 0 ELSE x.v
C10_RevenueNeverNull ==
  Returned =>
    \A r \in OppRows :
      /\ notna(r.expected_revenue_usd)
      /\ r.expected_revenue_usd = Float(NullAsZero(r.AmountUSD) * NullAsZero(r.Probability))

\* the flag strings that lower-case to one of true, 1, t, y
TruthyRaw == {"true", "True", "TRUE", "1", "t", "T", "y", "Y"}
Measured == pc \in {"measured", "sanitized", "returned", "done"}

\* C11: for every record produced by compute_metrics, is_won and is_lost are
\* never both 1; is_won is 1 exactly when the lower-cased raw IsWon string is
\* one of true, 1, t, y, and is_lost is 1 exactly when the lower-cased raw
\* IsClosed string is one of those tokens and is_won is 0.
C11_WonLostFlags ==
  Measured =>
    \A r \in OppRows :
      /\ r.is_won \in {0, 1} /\ r.is_lost \in {0, 1}
      /\ ~(r.is_won = 1 /\ r.is_lost = 1)
      /\ r.is_won = 1 <=> r.IsWon \in TruthyRaw
      /\ r.is_lost = 1 <=> (r.IsClosed \in TruthyRaw /\ r.is_won = 0)

\* a record both won and closed, flagged in upper case: won and not lost
C11_Witness ==
  /\ pc = "measured"
  /\ \E r \in OppRows :
       r.IsWon = "TRUE" /\ r.IsClosed = "T" /\ r.is_won = 1 /\ r.is_lost = 0

\* the required columns absent from the input files
MissingOpp == REQUIRED_OPP_COLS \ opportunities_csv.cols
MissingAcct == REQUIRED_ACCT_COLS \ accounts_csv.cols
\* the error of the column validation
SchemaError == exc.type = "ValueError" /\ exc.msg = "Missing columns"

\* C12: run_pipeline fails with a schema error exactly when at least one
\* required column is absent from the opportunity table or the account table;
\* the error lists every missing column of each table, and when it is raised
\* no canonical or enriched output is returned.
C12_SchemaError ==
  /\ pc \notin {"start", "loaded"} => (SchemaError <=> (MissingOpp # {} \/ MissingAcct # {}))
  /\ SchemaError =>
       /\ exc.missing_opp = MissingOpp /\ exc.missing_acct = MissingAcct
       /\ pc = "raised" /\ canon = NoCanon /\ anomalies = <<>>

\* two columns absent from the opportunity file and one from the account
\* file, all three listed
C12_Witness ==
  /\ pc = "raised" /\ SchemaError
  /\ Cardinality(MissingOpp) = 2 /\ Cardinality(MissingAcct) = 1
  /\ exc.missing_opp = MissingOpp /\ exc.missing_acct = MissingAcct

\* C13: for every input whose opportunity and account tables have all
\* required columns, run_pipeline followed by anomaly_rules completes and
\* returns a canonical set and an anomaly set, whatever the row-level values
\* are: no row-level defect makes the pipeline raise.
C13_RowDefectsNeverRaise ==
  (MissingOpp = {} /\ MissingAcct = {}) =>
    /\ pc # "raised" /\ exc = NoExc
    /\ pc = "done" => canon.cols # {} /\ Len(canon.rows) = Len(opp.rows)

\* C14: any two invocations of run_pipeline followed by anomaly_rules on the
\* same four input tables, at any two points in time, produce identical
\* canonical tables (same rows, same order, same nulls) and identical anomaly
\* rows: whatever another invocation on the files of this one writes is what
\* this one wrote.
C14_SameOutputsAnyTime ==
  pc = "done" =>
    \A other \in main(opportunities_csv, accounts_csv, fx_csv, stage_map_csv) :
      other = <<canon, anomalies>>

\* C15: the canonical table returned by canonical_select is sorted ascending
\* by CloseDate with all null close dates after all non-null ones, and rows
\* with equal close date (including rows whose close date is null) are
\* ordered ascending by Id.
C15_CanonicalOrder ==
  Returned =>
    /\ Len(canon.rows) = Len(opp.rows)
    /\ \A i, j \in DOMAIN canon.rows :
         i < j =>
           LET a == canon.rows[i]
               b == canon.rows[j]
           IN  /\ ~(isna(a.CloseDate) /\ notna(b.CloseDate))
               /\ (notna(a.CloseDate) /\ notna(b.CloseDate)) => a.CloseDate.v <= b.CloseDate.v
               /\ (isna(a.CloseDate) /\ isna(b.CloseDate)) => a.Id <= b.Id
               /\ (notna(a.CloseDate) /\ notna(b.CloseDate) /\ a.CloseDate.v = b.CloseDate.v)
                    => a.Id <= b.Id

\* the file lists two records without a close date, the larger Id first,
\* then a dated record: the dated one comes out first, then the two by Id
C15_Witness ==
  /\ pc = "returned" /\ Len(Loaded) = 3 /\ Len(canon.rows) = 3
  /\ isna(Loaded[1].CloseDate) /\ isna(Loaded[2].CloseDate) /\ notna(Loaded[3].CloseDate)
  /\ Loaded[1].Id > Loaded[2].Id
  /\ canon.rows[1].Id = Loaded[3].Id
  /\ canon.rows[2].Id = Loaded[2].Id
  /\ canon.rows[3].Id = Loaded[1].Id

Sanitized == pc \in {"sanitized", "returned", "done"}
\* a string of the form +1 followed by 10 digits
IsPlusOneTen(cs) ==
  /\ Len(cs) = 12 /\ cs[1] = "+" /\ cs[2] = "1"
  /\ \A i \in 3..12 : cs[i] \in DIGITS

\* C16: for every string of the form +1 followed by 10 digits,
\* normalize_phone returns the same string.
C16_PhoneRoundTrip ==
  Sanitized =>
    \A r \in OppRows : IsPlusOneTen(r.Phone) => r.phone_normalized = Chars(r.Phone)

\* +1 followed by a subscriber number that itself starts with 011
C16_Witness ==
  /\ pc = "sanitized"
  /\ \E r \in OppRows :
       /\ IsPlusOneTen(r.Phone) /\ SubSeq(r.Phone, 3, 5) = <<"0", "1", "1">>
       /\ r.phone_normalized = Chars(r.Phone)

\* the digits of a phone string, in order
DigitsOf(cs) == SelectSeq(cs, LAMBDA c : c \in DIGITS)

\* C17: for every phone string, after all non-digit characters are removed:
\* exactly 10 digits, or 11 digits with a leading 1, yields "+1" followed by
\* the 10 subscriber digits; 11 or more digits starting with 00 or 011 yields
\* "+" followed by the digits with that prefix removed; and any other input
\* with fewer than 11 digits (including blank) yields null.
C17_PhoneCases ==
  Sanitized =>
    \A r \in OppRows :
      LET d == DigitsOf(r.Phone)
          n == Len(d)
      IN  /\ n = 10 => r.phone_normalized = Chars(<<"+", "1">> \o d)
          /\ (n = 11 /\ d[1] = "1") => r.phone_normalized = Chars(<<"+", "1">> \o Tail(d))
          /\ (n >= 11 /\ SubSeq(d, 1, 2) = <<"0", "0">>)
               => r.phone_normalized = Chars(<<"+">> \o SubSeq(d, 3, n))
          /\ (n >= 11 /\ SubSeq(d, 1, 3) = <<"0", "1", "1">>)
               => r.phone_normalized = Chars(<<"+">> \o SubSeq(d, 4, n))
          /\ n < 10 => r.phone_normalized = None

\* a bracketed number of thirteen digits with the prefix 011: the ten
\* digits after the prefix behind a "+"
C17_Witness ==
  /\ pc = "sanitized"
  /\ \E r \in OppRows :
       /\ Len(DigitsOf(r.Phone)) = 13 /\ r.Phone[1] = "("
       /\ SubSeq(DigitsOf(r.Phone), 1, 3) = <<"0", "1", "1">>
       /\ r.phone_normalized = Chars(<<"+">> \o SubSeq(DigitsOf(r.Phone), 4, 13))

\* an email without its leading and trailing spaces, in lower case
Trimmed(cs) ==
  LET at == {i \in DOMAIN cs : cs[i] # " "}
  IN  IF at = {} THEN <<>>
      ELSE SubSeq(cs, CHOOSE i \in at : \A j \in at : i <= j,
                      CHOOSE i \in at : \A j \in at : j <= i)
LowerTrimmed(cs) == [i \in DOMAIN Trimmed(cs) |-> LowerChar(Trimmed(cs)[i])]

\* C18: hash_email hashes the lower-cased, trimmed email: two owner emails
\* that differ only in letter case or in leading/trailing whitespace yield
\* the same owner_email_hash, and a null or blank (whitespace-only) email
\* yields a null hash.
C18_EmailHashTrimmed ==
  Sanitized =>
    /\ \A r \in OppRows :
         IF LowerTrimmed(r.OwnerEmail) = <<>>
           THEN r.owner_email_hash = None
           ELSE r.owner_email_hash = Cell("sha256", 0, "", LowerTrimmed(r.OwnerEmail))
    /\ \A r, q \in OppRows :
         LowerTrimmed(r.OwnerEmail) = LowerTrimmed(q.OwnerEmail)
           => r.owner_email_hash = q.owner_email_hash

\* the anomaly rows of one opportunity with one code
IssuesOf(id, code) ==
  {i \in DOMAIN anomalies : anomalies[i].opportunity_id = id /\ anomalies[i].code = code}

\* C19: anomaly_rules emits a NEG_AMOUNT row for a record exactly when its
\* Amount is present (numeric) and strictly less than 0; an amount of 0, a
\* positive amount, or a null amount never yields NEG_AMOUNT.
C19_NegAmount ==
  pc = "done" =>
    /\ \A r \in OppRows :
         IssuesOf(r.Id, "NEG_AMOUNT") # {} <=> (r.Amount.t = "float" /\ r.Amount.v < 0)
    /\ \A q \in Range(Loaded) :
         IssuesOf(q.Id, "NEG_AMOUNT") # {} <=> (q.Amount.t = "numstr" /\ q.Amount.v < 0)

\* the amounts -500 and 0 in one table: one NEG_AMOUNT row, for the first
C19_Witness ==
  /\ pc = "done"
  /\ \E r, q \in OppRows :
       /\ r.Amount = Float(-500) /\ q.Amount = Float(0)
       /\ Cardinality(IssuesOf(r.Id, "NEG_AMOUNT")) = 1
       /\ IssuesOf(q.Id, "NEG_AMOUNT") = {}

\* the raw stages the stage-mapping file has an entry for
MappedStages == {stage_map_csv.rows[i].source_stage : i \in DOMAIN stage_map_csv.rows}

\* C20: an opportunity whose raw StageName has no entry in the stage-mapping
\* table is kept in the output with a null StageStd, and anomaly_rules emits
\* a MISSING_STAGE_MAP row for a record exactly when its StageStd is null.
C20_MissingStageMap ==
  /\ Returned =>
       \A q \in Range(Loaded) :
         q.StageName \notin MappedStages =>
           \A df \in {canon, opp} :
             /\ RowsOf(df, q.Id) # {}
             /\ \A i \in RowsOf(df, q.Id) : isna(df.rows[i].StageStd)
  /\ pc = "done" =>
       \A r \in OppRows : IssuesOf(r.Id, "MISSING_STAGE_MAP") # {} <=> isna(r.StageStd)

\* an unmapped stage next to a stage mapped to the empty string: the first
\* is kept with a null StageStd and flagged, the second is not flagged
C20_Witness ==
  /\ pc = "done"
  /\ \E r, q \in OppRows :
       /\ r.StageName = "Prospecting" /\ r.StageStd = NaN
       /\ Cardinality(IssuesOf(r.Id, "MISSING_STAGE_MAP")) = 1
       /\ \E i \in RowsOf(canon, r.Id) : canon.rows[i].StageStd = NaN
       /\ q.StageName = "Qualification" /\ q.StageStd = Str("")
       /\ IssuesOf(q.Id, "MISSING_STAGE_MAP") = {}

\* the FX file has no row of the record's currency (codes upper-cased)
NoFxRows(r) == \A f \in Range(fx_csv.rows) : Upper(f.currency) # Upper(r.CurrencyIsoCode)

C22_BlankCurrencyIsUSD ==
  /\ Returned =>
       \A r \in OppRows :
         (r.CurrencyIsoCode = "" /\ r.Amount.t = "float")
           => r.AmountUSD = Float(r.Amount.v * RateScale)
  /\ pc = "done" =>
       \A r \in OppRows : r.CurrencyIsoCode = "" => IssuesOf(r.Id, "MISSING_FX") = {}

\* C29: whenever anomaly_rules emits a MISSING_FX row for a record produced
\* by run_pipeline, that record's AmountUSD is null: a record whose USD
\* amount was computed (in particular a USD-denominated record with a numeric
\* amount, whatever the FX table contains) is never flagged MISSING_FX.
C29_MissingFxOnlyWithoutUsdAmount ==
  pc = "done" =>
    \A r \in OppRows : IssuesOf(r.Id, "MISSING_FX") # {} => isna(r.AmountUSD)

\* C23: anomaly_rules emits a PROB_OOB row for a record exactly when its
\* Probability is present (numeric) and is < 0 or > 100; the boundary values
\* 0 and 100 and a null probability never yield PROB_OOB.
C23_ProbOutOfBounds ==
  pc = "done" =>
    /\ \A r \in OppRows :
         IssuesOf(r.Id, "PROB_OOB") # {}
           <=> (r.Probability.t = "float" /\ (r.Probability.v < 0 \/ r.Probability.v > 100))
    /\ \A q \in Range(Loaded) :
         IssuesOf(q.Id, "PROB_OOB") # {}
           <=> (q.Probability.t = "numstr" /\ (q.Probability.v < 0 \/ q.Probability.v > 100))

\* probabilities 101 and 100 in one table: one PROB_OOB row, for the first
C23_Witness ==
  /\ pc = "done"
  /\ \E r, q \in OppRows :
       /\ r.Probability = Float(101) /\ q.Probability = Float(100)
       /\ Cardinality(IssuesOf(r.Id, "PROB_OOB")) = 1
       /\ IssuesOf(q.Id, "PROB_OOB") = {}

\* C24: anomaly_rules emits a FUTURE_CLOSE row for a record exactly when its
\* CloseDate is present and strictly later than the current date (time of
\* day dropped) plus one day; a close date equal to today's date plus one
\* day, any earlier date, or a null close date never yields FUTURE_CLOSE.
C24_FutureClose ==
  pc = "done" =>
    \A r \in OppRows :
      IssuesOf(r.Id, "FUTURE_CLOSE") # {} <=> (r.CloseDate.t = "ts" /\ r.CloseDate.v > now + 1)

\* a record closing tomorrow next to one closing the day after: one
\* FUTURE_CLOSE row, for the second
C24_Witness ==
  /\ pc = "done"
  /\ \E r, q \in OppRows :
       /\ r.CloseDate = Ts(now + 1) /\ q.CloseDate = Ts(now + 2)
       /\ IssuesOf(r.Id, "FUTURE_CLOSE") = {}
       /\ Cardinality(IssuesOf(q.Id, "FUTURE_CLOSE")) = 1

\* the (name, industry) pairs of the account rows whose Id is k
AccountsOf(k) ==
  {<<a.Name, a.Industry>> : a \in {b \in Range(accounts_csv.rows) : b.Id = k}}

\* the enrichment of the rows of df for opportunity q is that of q's account
Enriched(df, q) ==
  LET rows == {df.rows[i] : i \in RowsOf(df, q.Id)}
  IN  /\ rows # {}
      /\ \A r \in rows : r.AccountId = q.AccountId /\ r.Name = q.Name
      /\ IF AccountsOf(q.AccountId) = {}
            THEN \A r \in rows : r.AccountName = NaN /\ r.AccountIndustry = NaN
            ELSE {<<r.AccountName, r.AccountIndustry>> : r \in rows} = AccountsOf(q.AccountId)

\* C25: an opportunity whose AccountId matches no account row is kept with
\* null AccountName and AccountIndustry, one whose AccountId matches gets
\* that account's Name and Industry; enrichment never halts the pipeline and
\* never removes an opportunity.
C25_AccountEnrichment ==
  /\ pc # "raised"
  /\ pc \in {"enriched", "converted", "measured", "sanitized", "returned", "done"} =>
       \A q \in Range(Loaded) : Enriched(opp, q)
  /\ Returned => \A q \in Range(Loaded) : Enriched(canon, q)

\* one opportunity of the absent account A3 and one of A1, which the account
\* table holds: both returned, the first with null account fields
C25_Witness ==
  /\ pc = "returned"
  /\ \E r, q \in Range(canon.rows) :
       /\ r.AccountId = "A3" /\ r.AccountName = NaN /\ r.AccountIndustry = NaN
       /\ q.AccountId = "A1" /\ q.AccountName = Str("Acme") /\ q.AccountIndustry = Str("Tech")

\* the fixed detail string of every anomaly code
RuleDetail ==
  [NEG_AMOUNT |-> "Amount is negative",
   PROB_OOB |-> "Probability outside 0-100",
   FUTURE_CLOSE |-> "CloseDate in the future",
   MISSING_STAGE_MAP |-> "Stage could not be mapped to standard taxonomy",
   MISSING_FX |-> "FX rate missing for currency/date"]

\* the codes whose trigger the enriched record r satisfies on the day `now`
Triggered(r) ==
  (IF r.Amount.t = "float" /\ r.Amount.v < 0 THEN {"NEG_AMOUNT"} ELSE {})
  \cup (IF r.Probability.t = "float" /\ (r.Probability.v < 0 \/ r.Probability.v > 100)
          THEN {"PROB_OOB"} ELSE {})
  \cup (IF r.CloseDate.t = "ts" /\ r.CloseDate.v > now + 1 THEN {"FUTURE_CLOSE"} ELSE {})
  \cup (IF r.StageStd.t \in {"None", "NaN", "NaT"} THEN {"MISSING_STAGE_MAP"} ELSE {})
  \cup (IF r.CurrencyIsoCode # "" /\ r.fx_rate_used.t \in {"None", "NaN", "NaT"}
          THEN {"MISSING_FX"} ELSE {})

\* C26: the five rules are evaluated independently for every record: a
\* record that satisfies k of the five triggers contributes exactly k anomaly
\* rows, one per triggered code, each with the record's Id and the code's
\* fixed detail string; a record that satisfies none contributes no row, the
\* anomaly count is at most 5 times the number of records and every
\* opportunity_id of the output is an Id of the enriched set.
C26_IndependentRules ==
  pc = "done" =>
    /\ \A r \in OppRows : \A c \in DOMAIN RuleDetail :
         Cardinality(IssuesOf(r.Id, c)) = IF c \in Triggered(r) THEN 1 ELSE 0
    /\ \A i \in DOMAIN anomalies :
         /\ anomalies[i].opportunity_id \in {r.Id : r \in OppRows}
         /\ anomalies[i].code \in DOMAIN RuleDetail
         /\ anomalies[i].detail = RuleDetail[anomalies[i].code]
    /\ Len(anomalies) <= 5 * Len(opp.rows)

\* a record with all five defects next to one with two of them: five
\* anomaly rows for the first, two for the second
C26_Witness ==
  /\ pc = "done"
  /\ \E r, q \in OppRows :
       /\ Cardinality(Triggered(r)) = 5
       /\ Cardinality({i \in DOMAIN anomalies : anomalies[i].opportunity_id = r.Id}) = 5
       /\ Cardinality(Triggered(q)) = 2
       /\ Cardinality({i \in DOMAIN anomalies : anomalies[i].opportunity_id = q.Id}) = 2

\* the fixed list of canonical columns, in order
CanonicalList ==
  <<"Id", "AccountId", "AccountName", "AccountIndustry", "Name", "StageName", "StageStd",
    "Amount", "CurrencyIsoCode", "AmountUSD", "expected_revenue_usd", "Probability",
    "CloseDate", "CreatedDate", "LastModifiedDate", "sales_cycle_days",
    "owner_email_hash", "phone_normalized", "is_won", "is_lost">>

\* the columns that must stay out of the canonical table
NonCanonical == {"OwnerEmail", "Phone", "OwnerId", "IsWon", "IsClosed", "fx_rate_used"}

\* C27: the columns of the canonical table are exactly those of the fixed
\* 20-column list that are present in the enriched table, in the list's
\* order; OwnerEmail, Phone, OwnerId, IsWon, IsClosed and fx_rate_used never
\* appear in it, and canonical_select keeps every row of the enriched table
\* exactly once.
C27_CanonicalColumns ==
  Returned =>
    /\ canon.order = SelectSeq(CanonicalList, LAMBDA c : c \in opp.cols)
    /\ canon.cols = Range(canon.order)
    /\ canon.cols \cap NonCanonical = {}
    /\ Len(canon.rows) = Len(opp.rows)
    /\ \A i \in DOMAIN canon.rows : DOMAIN canon.rows[i] = canon.cols
    /\ \A r \in OppRows :
         \E i \in DOMAIN canon.rows :
           /\ \A c \in canon.cols : canon.rows[i][c] = r[c]
           /\ \A j \in DOMAIN canon.rows : canon.rows[j].Id = r.Id => j = i

\* a file with a Description, an OwnerId and an AccountName of its own: the
\* merge renames both AccountName columns, and the canonical table has the
\* 19 other columns of the list for both rows
C27_Witness ==
  /\ pc = "returned"
  /\ opportunities_csv.cols = REQUIRED_OPP_COLS \cup {"Description", "OwnerId", "AccountName"}
  /\ {"AccountName_x", "AccountName_y", "OwnerId_x", "OwnerId_y", "Description",
       "OwnerEmail", "Phone", "fx_rate_used"} \subseteq opp.cols
  /\ Len(canon.order) = 19 /\ canon.order[3] = "AccountIndustry"
  /\ Len(canon.rows) = 2 /\ Len(opp.rows) = 2

\* the positions of run_pipeline and main in order; "raised" is outside
PipelineOrder ==
  <<"start", "loaded", "validated", "deduped", "staged", "enriched", "converted",
    "measured", "sanitized", "returned", "done">>
Position(p) == CHOOSE i \in DOMAIN PipelineOrder : PipelineOrder[i] = p

\* the column each transformation stage adds, by the position it leads to
StageMarker ==
  [staged |-> "StageStd", enriched |-> "AccountName", converted |-> "fx_rate_used",
   measured |-> "is_won", sanitized |-> "owner_email_hash"]

\* the columns of the Metrics Calculator's output
MetricsCols ==
  REQUIRED_OPP_COLS \cup
    {"StageStd", "AccountName", "AccountIndustry", "OwnerId", "fx_rate_used", "AmountUSD",
     "expected_revenue_usd", "sales_cycle_days", "is_won", "is_lost"}

NumericOrNull(c) == c.t \in {"float", "NaN", "None"}

\* One step of a run: validation before any stage, then the stages once each
\* in the order deduplication, stage normalization, account enrichment,
\* currency conversion, metrics, PII sanitization, projection.
StagesInOrder ==
  /\ pc' # pc =>
       \/ pc' = "raised" /\ pc \in {"loaded", "enriched"}
       \/ pc # "raised" /\ pc' # "raised" /\ Position(pc') = Position(pc) + 1
  /\ pc' \in {"loaded", "validated"} =>
       opp'.cols = opportunities_csv.cols /\ Len(opp'.rows) = Len(opportunities_csv.rows)
  /\ pc' \notin {"start", "loaded", "raised"} =>
       REQUIRED_OPP_COLS \subseteq opp'.cols /\ REQUIRED_ACCT_COLS \subseteq accts'.cols
  /\ pc' = "deduped" => Cardinality({r.Id : r \in Range(opp'.rows)}) = Len(opp'.rows)
  /\ \A p \in DOMAIN StageMarker :
       (StageMarker[p] \in opp'.cols /\ StageMarker[p] \notin opp.cols) <=> (pc' = p /\ pc # p)
  /\ canon' # canon <=> (pc' = "returned" /\ pc # "returned")
  /\ pc \in {"sanitized", "returned"} => opp' = opp
  /\ Returned' =>
       /\ {"StageStd", "fx_rate_used"} \subseteq opp'.cols
       /\ \A r \in Range(opp'.rows) : NumericOrNull(r.Amount) /\ NumericOrNull(r.Probability)

\* C28 as stated: validation completes before any transformation stage, the
\* stages run once each in order, and the enriched set returned for anomaly
\* detection is the output of the Metrics Calculator, with StageStd,
\* fx_rate_used and numeric Amount and Probability.
C28_ReturnsMetricsOutput ==
  [][/\ StagesInOrder
     /\ Returned' => opp'.cols = MetricsCols]_vars

\* C28: validation completes before any transformation stage, the stages run
\* once each in order, and the enriched set returned for anomaly detection is
\* the output of the PII sanitizer: the Metrics Calculator's output, every
\* cell unchanged, with owner_email_hash and phone_normalized added, not yet
\* projected; it has StageStd, fx_rate_used and numeric or null Amount and
\* Probability.
C28_ReturnsSanitizedOutput ==
  [][/\ StagesInOrder
     /\ Returned' => opp'.cols = MetricsCols \cup {"owner_email_hash", "phone_normalized"}
     /\ (pc = "measured" /\ pc' # pc) =>
          /\ opp.cols = MetricsCols /\ Len(opp'.rows) = Len(opp.rows)
          /\ \A i \in DOMAIN opp.rows : \A c \in opp.cols : opp'.rows[i][c] = opp.rows[i][c]]_vars

\* a run that returned: the enriched set has the metrics and both PII
\* columns, the canonical table its 20 columns
C28_Witness ==
  /\ pc = "returned"
  /\ opp.cols = MetricsCols \cup {"owner_email_hash", "phone_normalized"}
  /\ Len(opp.rows) = 1 /\ opp.rows[1].Amount = Float(85000)
  /\ Len(canon.order) = 20 /\ Len(canon.rows) = 1

\* the non-null results of normalize_phone in the sanitized table
PhoneResults == {r.phone_normalized.cs : r \in {q \in OppRows : q.phone_normalized.t = "chars"}}

\* a "+" followed only by digits
IsPlusDigits(cs) == Len(cs) >= 1 /\ cs[1] = "+" /\ \A i \in 2..Len(cs) : cs[i] \in DIGITS

\* C30 as stated: normalize_phone is idempotent on its results: whenever
\* normalize_phone(x) is non-null, normalize_phone(normalize_phone(x)) equals
\* normalize_phone(x), and every non-null result is "+" followed only by
\* digits.
C30_PhoneIdempotent ==
  Sanitized =>
    \A res \in PhoneResults : IsPlusDigits(res) /\ normalize_phone(res) = Chars(res)

\* C30: every non-null result of normalize_phone is "+" followed only by
\* digits, and normalizing the result again returns it unchanged exactly when
\* it has at least 11 digits that do not start with 00 or 011 (the results
\* of the form +1 and ten digits are among these).
C30_PhoneIdempotentFromElevenDigits ==
  Sanitized =>
    \A res \in PhoneResults :
      /\ IsPlusDigits(res)
      /\ normalize_phone(res) = Chars(res)
           <=> /\ Len(res) >= 12
               /\ SubSeq(res, 2, 3) # <<"0", "0">>
               /\ SubSeq(res, 2, 4) # <<"0", "1", "1">>

\* 00 and ten more digits: the result, "+" and those ten digits, would get
\* the country code 1 when normalized again
C30_Witness ==
  /\ pc = "sanitized"
  /\ \E r \in OppRows :
       /\ DigitsOf(r.Phone) = <<"0", "0", "1", "5">> \o [i \in 1..8 |-> "5"]
       /\ r.phone_normalized = Chars(<<"+", "1", "5">> \o [i \in 1..8 |-> "5"])
       /\ normalize_phone(r.phone_normalized.cs)
            = Chars(<<"+", "1", "1", "5">> \o [i \in 1..8 |-> "5"])

====
